---- MODULE Spec2Model ----
(***************************************************************************)
(* Model of the components of instant-file-alchemy:                        *)
(*   src/src/components/PDFManipulator.tsx  (parsePageRange, movePDF,      *)
(*     mergePDFs, splitPDF, compressPDF, the angle select),                *)
(*   src/src/components/PDFConverter.tsx  (convertImagesToPDF,             *)
(*     convertPDFToImages),                                                *)
(*   src/unnamed/part_000  (FileUpload.processFiles; ImageConverter:       *)
(*     handleConvert, compressImages, the rotation controls),              *)
(*   src/src/pages/Index.tsx  (the upload list, the tabs and the file      *)
(*     lists they are given).                                              *)
(*                                                                         *)
(* SpecRange is one call of parsePageRange on drawn arguments.  SpecMerge  *)
(* and SpecSplit are the merge panel and the split panel of the mounted    *)
(* PDFManipulator, Spec is the whole component, SpecButtons the component  *)
(* on one-page files; all four start the handlers through the buttons,     *)
(* which are disabled while isProcessing is true.  SpecCalls calls the     *)
(* handlers as functions, whatever the flag says, so that invocations run  *)
(* side by side.  SpecImage is the mounted ImageConverter, SpecConvert the *)
(* mounted PDFConverter (SpecConvertFair with every awaited call           *)
(* settling), SpecUpload the FileUpload on its first batch.  SpecOrder     *)
(* follows single moves in longer order lists, SpecProps changes the       *)
(* `files` prop and mounts the component again while a merge may still     *)
(* run, SpecIndex is the Index page with its upload list and tabs.  The    *)
(* tabs of the page mount one component at a time, so each specification   *)
(* of a component leaves the others in their initial state.                *)
(*                                                                         *)
(* A handler runs from one await to the next in one step and keeps the     *)
(* props and state of the render it was created in; every awaited call     *)
(* may reject.  The invocations of a handler are kept in a list: a call    *)
(* appends one, and one that outlives its component instance goes on but   *)
(* its state updates are lost.  The pixels of an image and the bytes of a  *)
(* document are not modelled.  A render of the PDFManipulator with another *)
(* `files` prop, or its mount in a tab opened again, and the effect on     *)
(* [files] that follows are two steps: between them the files are shown    *)
(* with the order list of the render before, or of useState.  Controls act *)
(* only where they are rendered: a component with an empty file list shows *)
(* its placeholder card and nothing else.                                  *)
(*                                                                         *)
(* A JavaScript string is a sequence of one-character strings, so that     *)
(* split, trim, includes, startsWith and parseInt are computed the way the *)
(* engine computes them.  The id of an uploaded file is the value drawn    *)
(* for it, and two files may draw the same; `name` tells the files apart.  *)
(* A PDF document is the sequence of its pages; a page of a pdf-lib        *)
(* document is <<name of the source file, 1-based index in that file>>, a  *)
(* page of a jsPDF document is the list of the images placed on it.        *)
(***************************************************************************)
EXTENDS Integers, Sequences, FiniteSets, TLC

VARIABLES
    \* ---- one call of parsePageRange(range, totalPages) ----
    range,          \* the argument `range`
    totalPages,     \* the argument `totalPages`
    pages,          \* the returned list
    parsePc,        \* "call" before the call, "returned" after it
    \* ---- the mounted PDFManipulator ----
    files,          \* the `files` prop
    mergeOrder,     \* useState: ids in merge order
    splitRange,     \* useState: text of the page-range input
    splitMode,      \* useState: "range" | "individual"
    isProcessing,   \* useState
    mergeOps,       \* the invocations of mergePDFs, in the order of the calls
    splitOps,       \* the invocations of splitPDF, in the order of the calls
    rotationAngle,  \* useState: the angle of the rotate panel
    compressOp,     \* the last call of compressPDF
    pendingEffect,  \* the render with the current `files` prop is committed,
                    \* its effect on [files] has not run yet
    \* ---- the mounted ImageConverter ----
    imageConverter, \* [files, outputFormat, rotation, isProcessing, ops]
    \* ---- the mounted PDFConverter ----
    pdfConverter,   \* [files, isProcessing, toPdf, toImages]
    \* ---- the mounted FileUpload ----
    fileUpload,     \* [isProcessing, batch, called, passed, toasts]
    \* ---- the Index page ----
    Index           \* [uploadedFiles, activeTab, dropped]

rangeVars == <<range, totalPages, pages, parsePc>>
compVars  == <<files, mergeOrder, splitRange, splitMode, isProcessing, mergeOps, splitOps>>
panelVars == <<rotationAngle, compressOp, pendingEffect>>
elsewhere == <<imageConverter, pdfConverter, fileUpload, Index>>
exceptImageConverter == <<rangeVars, compVars, panelVars, pdfConverter, fileUpload, Index>>
exceptPDFConverter   == <<rangeVars, compVars, panelVars, imageConverter, fileUpload, Index>>
exceptFileUpload     == <<rangeVars, compVars, panelVars, imageConverter, pdfConverter, Index>>
vars      == <<range, totalPages, pages, parsePc,
               files, mergeOrder, splitRange, splitMode, isProcessing, mergeOps, splitOps,
               rotationAngle, compressOp, pendingEffect,
               imageConverter, pdfConverter, fileUpload, Index>>

---------------------------------------------------------------------------
(* Bounds of the model *)

\* longest range expression drawn for a call of parsePageRange
MaxLen == 4
\* largest page count of a document
MaxPages == 3
\* largest number of PDF files handed to the component
MaxFiles == 2
\* largest number of files in the upload list of the PDFConverter
MaxUploads == 3
\* largest number of rows of the order list where single moves are followed
MaxRows == 4
\* largest number of invocations of one handler running side by side
MaxCalls == 2

\* characters the range expressions are drawn from
Chars == {"0", "1", "2", "3", "-", ",", " ", "\\u00A0", "a"}

---------------------------------------------------------------------------
(* JavaScript strings and numbers *)

Min(S) == CHOOSE x \in S : \A y \in S : x <= y
Max(S) == CHOOSE x \in S : \A y \in S : x >= y

\* white space as String.prototype.trim and parseInt strip it: the WhiteSpace
\* and LineTerminator characters of ECMAScript.  A character that a string
\* of this module cannot hold is written as its escape, "\\u00A0" for U+00A0.
WhiteSpace ==
    {"\t", "\n", "\\u000B", "\f", "\r", " ", "\\u00A0", "\\u1680",
     "\\u2000", "\\u2001", "\\u2002", "\\u2003", "\\u2004", "\\u2005",
     "\\u2006", "\\u2007", "\\u2008", "\\u2009", "\\u200A",
     "\\u2028", "\\u2029", "\\u202F", "\\u205F", "\\u3000", "\\uFEFF"}

\* the value of parseInt: NaN, or a number
NaN == [nan |-> TRUE, n |-> 0]
Num(k) == [nan |-> FALSE, n |-> k]

\* JavaScript truthiness of a number: NaN and 0 are falsy
Truthy(x) == ~x.nan /\ x.n # 0

\* x <= y on numbers: every comparison with NaN is false
Leq(x, y) == ~x.nan /\ ~y.nan /\ x.n <= y.n

\* the string is returned as it is
TrimNothing(s) == s

\* String.prototype.trim
Trim(s) ==
    LET I == {i \in 1..Len(s) : s[i] \notin WhiteSpace}
    IN  IF I = {} THEN <<>> ELSE SubSeq(s, Min(I), Max(I))

\* String.prototype.includes, for a one-character needle
Includes(s, c) == \E i \in 1..Len(s) : s[i] = c

\* String.prototype.split, for a one-character separator: never empty,
\* "" splits to [""], "1," to ["1", ""]
RECURSIVE Split(_, _)
Split(s, sep) ==
    LET I == {i \in 1..Len(s) : s[i] = sep}
    IN  IF I = {} THEN <<s>>
        ELSE <<SubSeq(s, 1, Min(I) - 1)>> \o Split(SubSeq(s, Min(I) + 1, Len(s)), sep)

\* the value of a digit in radix 10 or 16, -1 for any other character
DigitValue(c) ==
    CASE c = "0" -> 0 [] c = "1" -> 1 [] c = "2" -> 2 [] c = "3" -> 3
      [] c = "4" -> 4 [] c = "5" -> 5 [] c = "6" -> 6 [] c = "7" -> 7
      [] c = "8" -> 8 [] c = "9" -> 9
      [] c \in {"a", "A"} -> 10 [] c \in {"b", "B"} -> 11
      [] c \in {"c", "C"} -> 12 [] c \in {"d", "D"} -> 13
      [] c \in {"e", "E"} -> 14 [] c \in {"f", "F"} -> 15
      [] OTHER -> -1

IsDigit(c, radix) == DigitValue(c) >= 0 /\ DigitValue(c) < radix

\* the number a string of digits denotes in the radix
RECURSIVE DigitsValue(_, _)
DigitsValue(s, radix) ==
    IF s = <<>> THEN 0
    ELSE DigitsValue(SubSeq(s, 1, Len(s) - 1), radix) * radix + DigitValue(s[Len(s)])

\* parseInt(s) with no radix: skips leading white space, takes a sign, takes
\* the radix 16 after a 0x or 0X prefix and 10 otherwise, reads the longest
\* run of digits and ignores what follows it; NaN when there is no digit
ParseInt(s) ==
    LET I      == {i \in 1..Len(s) : s[i] \notin WhiteSpace}
        s1     == IF I = {} THEN <<>> ELSE SubSeq(s, Min(I), Len(s))
        signed == s1 # <<>> /\ s1[1] \in {"+", "-"}
        sign   == IF s1 # <<>> /\ s1[1] = "-" THEN -1 ELSE 1
        s2     == IF signed THEN Tail(s1) ELSE s1
        hex    == Len(s2) >= 2 /\ s2[1] = "0" /\ s2[2] \in {"x", "X"}
        radix  == IF hex THEN 16 ELSE 10
        s3     == IF hex THEN SubSeq(s2, 3, Len(s2)) ELSE s2
        Bad    == {i \in 1..Len(s3) : ~IsDigit(s3[i], radix)}
        k      == IF Bad = {} THEN Len(s3) ELSE Min(Bad) - 1
    IN  IF k = 0 THEN NaN ELSE Num(sign * DigitsValue(SubSeq(s3, 1, k), radix))

\* [...new Set(pages)]: each value once, at the place of its first occurrence
RECURSIVE Dedup(_)
Dedup(s) ==
    IF s = <<>> THEN <<>>
    ELSE LET front == Dedup(SubSeq(s, 1, Len(s) - 1))
             x     == s[Len(s)]
         IN  IF \E i \in 1..Len(front) : front[i] = x THEN front ELSE Append(front, x)

\* .sort((a, b) => a - b): ascending numeric order, equal values kept
RECURSIVE SortAsc(_)
SortAsc(s) ==
    IF s = <<>> THEN <<>>
    ELSE LET m == Min({s[i] : i \in 1..Len(s)})
             j == Min({i \in 1..Len(s) : s[i] = m})
         IN  <<m>> \o SortAsc(SubSeq(s, 1, j - 1) \o SubSeq(s, j + 1, Len(s)))

\* the numbers lo, lo+1, ..., hi in that order
Interval(lo, hi) == [i \in 1..(hi - lo + 1) |-> lo + i - 1]

---------------------------------------------------------------------------
(* parsePageRange *)

\* PartPages with a range that runs past the last page clipped to it
\* instead of dropped
PartPagesClipped(part, total) ==
    LET trimmed == Trim(part)
    IN  IF Includes(trimmed, "-")
        THEN LET start == ParseInt(Trim(Split(trimmed, "-")[1]))
                 end   == ParseInt(Trim(Split(trimmed, "-")[2]))
             IN  IF /\ Truthy(start) /\ Truthy(end) /\ Leq(start, end)
                    /\ start.n >= 1 /\ start.n <= total
                 THEN Interval(start.n, IF end.n <= total THEN end.n ELSE total)
                 ELSE <<>>
        ELSE LET pageNum == ParseInt(trimmed)
             IN  IF ~pageNum.nan /\ pageNum.n >= 1 /\ pageNum.n <= total
                 THEN <<pageNum.n>>
                 ELSE <<>>

\* PartPages with the single page's upper bound strict (pageNum < totalPages)
PartPagesStrictUpper(part, total) ==
    LET trimmed == Trim(part)
    IN  IF Includes(trimmed, "-")
        THEN LET start == ParseInt(Trim(Split(trimmed, "-")[1]))
                 end   == ParseInt(Trim(Split(trimmed, "-")[2]))
             IN  IF /\ Truthy(start) /\ Truthy(end) /\ Leq(start, end)
                    /\ start.n >= 1 /\ end.n <= total
                 THEN Interval(start.n, end.n)
                 ELSE <<>>
        ELSE LET pageNum == ParseInt(trimmed)
             IN  IF ~pageNum.nan /\ pageNum.n >= 1 /\ pageNum.n < total
                 THEN <<pageNum.n>>
                 ELSE <<>>

\* the body of the loop over the parts: the pages one part pushes
PartPages(part, total) ==
    LET trimmed == Trim(part)
    IN  IF Includes(trimmed, "-")
        THEN LET nums  == [i \in 1..Len(Split(trimmed, "-")) |->
                               ParseInt(Trim(Split(trimmed, "-")[i]))]
                 start == nums[1]
                 end   == nums[2]
             IN  IF /\ Truthy(start) /\ Truthy(end) /\ Leq(start, end)
                    /\ start.n >= 1 /\ end.n <= total
                 THEN Interval(start.n, end.n)
                 ELSE <<>>
        ELSE LET pageNum == ParseInt(trimmed)
             IN  IF ~pageNum.nan /\ pageNum.n >= 1 /\ pageNum.n <= total
                 THEN <<pageNum.n>>
                 ELSE <<>>

\* pages pushed by the parts, in the order of the parts
RECURSIVE PushAll(_, _)
PushAll(parts, total) ==
    IF parts = <<>> THEN <<>>
    ELSE PartPages(Head(parts), total) \o PushAll(Tail(parts), total)

\* parsePageRange with the final sort left out
parsePageRangeUnsorted(r, total) == Dedup(PushAll(Split(r, ","), total))

\* split on commas, push each part's pages, deduplicate, sort ascending
parsePageRange(r, total) == SortAsc(Dedup(PushAll(Split(r, ","), total)))

---------------------------------------------------------------------------
(* PDF documents as pdf-lib is used on them *)

\* Math.random().toString(36).substr(2, 9) of processFiles, for the value
\* `random` that Math.random returned: equal values give equal ids, and
\* nothing in the program looks whether an id is already in use
FileId(random) == 100 + random

\* an UploadedFile of type application/pdf: the id processFiles gave it, the
\* name of its `file`, and the number of pages of the PDF in its `file`.
\* Files are told apart by their names, the i-th file being named i.
PdfFile(i, random, n) == [id |-> FileId(random), name |-> i, pages |-> n]

\* PDFDocument.load(await file.file.arrayBuffer()): the pages of the file,
\* a page being <<name of its file, 1-based position in it>>
LoadDocument(file) == [k \in 1..file.pages |-> <<file.name, k>>]

\* pdf.getPageCount()
GetPageCount(pdf) == Len(pdf)

\* pdf.getPageIndices(): the 0-based indices of all pages, ascending
GetPageIndices(pdf) == [k \in 1..Len(pdf) |-> k - 1]

\* target.copyPages(pdf, indices): copies of the pages at the 0-based
\* indices, in the order of the indices
CopyPages(pdf, indices) == [k \in 1..Len(indices) |-> pdf[indices[k] + 1]]

RECURSIVE Reverse(_)
Reverse(s) == IF s = <<>> THEN <<>> ELSE Append(Reverse(Tail(s)), Head(s))

\* copied.forEach(page => doc.insertPage(0, page)): each page put first
AddPagesFront(doc, copied) == Reverse(copied) \o doc

\* copied.forEach(page => doc.addPage(page)): each page appended
AddPages(doc, copied) == doc \o copied

\* files.find(f => f.id === fileId): the index of the first file with the
\* id, 0 when find returns undefined
Find(fs, fileId) ==
    LET I == {i \in 1..Len(fs) : fs[i].id = fileId}
    IN  IF I = {} THEN 0 ELSE Min(I)

\* files.map(f => f.id)
Ids(fs) == [i \in 1..Len(fs) |-> fs[i].id]

\* pages.map(p => p - 1)
ZeroBased(list) == [k \in 1..Len(list) |-> list[k] - 1]

\* the values Math.random returns for n files, up to a renaming of the
\* values: the first is 1, and each later one is a value returned before or
\* the next new one
RECURSIVE Draws(_)
Draws(n) ==
    IF n = 0 THEN { <<>> }
    ELSE UNION { { Append(d, v) : v \in 1..(Max({0} \cup {d[k] : k \in 1..Len(d)}) + 1) }
                 : d \in Draws(n - 1) }

\* no value was returned twice
Distinct(d) == \A a, b \in 1..Len(d) : d[a] = d[b] => a = b

---------------------------------------------------------------------------
(* Invocations of the asynchronous handlers *)

\* An invocation is a record of the handler's closure and locals; `pc` names
\* the await it is suspended at, "done" after it returned, and `live` tells
\* whether the component instance it was started in is still mounted.

\* the invocation has not returned
Running(op) == op.pc # "done"

\* the invocations of a list that have not returned: those that returned
\* are no longer followed once the handler is called again
StillRunning(ops) == SelectSeq(ops, Running)

\* the instance is unmounted: its invocations run on, their setState calls
\* reach no mounted instance
Unmounted(ops) == [k \in 1..Len(ops) |-> [ops[k] EXCEPT !.live = FALSE]]

\* setIsProcessing(false) of an invocation's finally block, on the flag
\* `flag` of the mounted instance
Released(op, flag) == IF op.live THEN FALSE ELSE flag

---------------------------------------------------------------------------
(* Uploaded files *)

\* MIME types, as JavaScript strings
ImagePrefix    == <<"i", "m", "a", "g", "e", "/">>
ImagePng       == <<"i", "m", "a", "g", "e", "/", "p", "n", "g">>
ImageJpeg      == <<"i", "m", "a", "g", "e", "/", "j", "p", "e", "g">>
ApplicationPdf == <<"a", "p", "p", "l", "i", "c", "a", "t", "i", "o", "n", "/", "p", "d", "f">>

\* String.prototype.startsWith
StartsWith(s, prefix) == Len(s) >= Len(prefix) /\ SubSeq(s, 1, Len(prefix)) = prefix

\* an entry of the upload list as the converters read it: they read the
\* type and the file of an entry, its id is the React key of its row
UploadedFile(i, type) == [id |-> FileId(i), name |-> i, type |-> type]

---------------------------------------------------------------------------
(* The ImageConverter component *)

\* a % n of JavaScript: the result has the sign of the dividend
JsRem(a, n) == IF a >= 0 THEN a % n ELSE -((-a) % n)

\* supportedFormats
SupportedFormats == {"png", "jpeg", "webp", "bmp"}

\* the positions of the rotation slider: min 0, max 360, step 90
SliderValues == {0, 90, 180, 270, 360}

\* an image file of the upload list
ImageFile(i) == UploadedFile(i, ImagePng)

\* an invocation of handleConvert or compressImages at its call
IdleImageOp ==
    [pc |-> "idle", live |-> TRUE, handler |-> "none", files |-> <<>>, i |-> 0,
     downloads |-> <<>>, toast |-> "none"]

\* the component as mounted with a `files` prop: the useState initial values,
\* and no invocation of a handler of this instance
ImageConverter(fs) ==
    [files |-> fs, outputFormat |-> "png", rotation |-> 0,
     isProcessing |-> FALSE, ops |-> <<>>]

\* the rotate-left button: setRotation(prev => (prev - 90) % 360)
RotateLeft ==
    /\ Len(imageConverter.files) > 0
    /\ imageConverter' = [imageConverter EXCEPT !.rotation = JsRem(@ - 90, 360)]
    /\ UNCHANGED exceptImageConverter

\* the rotate-right button: setRotation(prev => (prev + 90) % 360)
RotateRight ==
    /\ Len(imageConverter.files) > 0
    /\ imageConverter' = [imageConverter EXCEPT !.rotation = JsRem(@ + 90, 360)]
    /\ UNCHANGED exceptImageConverter

\* the rotation slider: setRotation(value[0])
RotationSlider ==
    /\ Len(imageConverter.files) > 0
    /\ \E value \in SliderValues :
          imageConverter' = [imageConverter EXCEPT !.rotation = value]
    /\ UNCHANGED exceptImageConverter

\* onValueChange of the output-format select
SetOutputFormat ==
    /\ Len(imageConverter.files) > 0
    /\ \E value \in SupportedFormats :
          imageConverter' = [imageConverter EXCEPT !.outputFormat = value]
    /\ UNCHANGED exceptImageConverter

\* handleConvert or compressImages up to the first await: the early return
\* on an empty list, or setIsProcessing(true) and the first image set to load
ImageInvoke ==
    /\ \E h \in {"handleConvert", "compressImages"} :
          LET kept == StillRunning(imageConverter.ops)
          IN  IF Len(imageConverter.files) = 0
              THEN imageConverter' =
                      [imageConverter EXCEPT
                          !.ops = Append(kept, [IdleImageOp EXCEPT
                                                   !.pc = "done", !.handler = h,
                                                   !.toast = "No images selected"])]
              ELSE imageConverter' =
                      [imageConverter EXCEPT
                          !.isProcessing = TRUE,
                          !.ops = Append(kept, [IdleImageOp EXCEPT
                                                   !.pc = "load", !.handler = h,
                                                   !.files = imageConverter.files,
                                                   !.i = 1])]
    /\ UNCHANGED exceptImageConverter

\* catch and finally of the k-th invocation: the failure toast, the flag
\* released
ImageFailed(k) ==
    LET op == imageConverter.ops[k]
    IN  imageConverter' =
           [imageConverter EXCEPT
               !.isProcessing = Released(op, @),
               !.ops[k] = [op EXCEPT !.pc = "done",
                                     !.toast = IF op.handler = "handleConvert"
                                               THEN "Conversion failed"
                                               ELSE "Compression failed"]]

\* the image of the current turn has loaded or failed to load. img.onload
\* sizes the canvas, draws and calls canvas.toBlob; it rejects when there is
\* no canvas context; img.onerror rejects; a call of onload that throws
\* leaves the promise unsettled for good.
ImageLoad ==
    /\ \E k \in 1..Len(imageConverter.ops) :
          /\ imageConverter.ops[k].pc = "load"
          /\ \/ imageConverter' = [imageConverter EXCEPT !.ops[k].pc = "toBlob"]
             \/ ImageFailed(k)
             \/ imageConverter' = [imageConverter EXCEPT !.ops[k].pc = "pending"]
    /\ UNCHANGED exceptImageConverter

\* the callback of canvas.toBlob. With a blob the file of the turn is
\* downloaded and the next image set to load, or, after the last image, the
\* success toast shown and the flag released in finally; without a blob the
\* promise is rejected. In compressImages the download is made inside the
\* callback, which leaves the promise unsettled if it throws.
ImageToBlob ==
    /\ \E k \in 1..Len(imageConverter.ops) :
          LET op   == imageConverter.ops[k]
              last == op.i = Len(op.files)
          IN  /\ op.pc = "toBlob"
              /\ \/ imageConverter' =
                       [imageConverter EXCEPT
                           !.isProcessing = IF last THEN Released(op, @) ELSE @,
                           !.ops[k] = [op EXCEPT
                                          !.i = @ + 1,
                                          !.downloads = Append(@, op.files[op.i].name),
                                          !.pc = IF last THEN "done" ELSE "load",
                                          !.toast = IF ~last THEN @
                                                    ELSE IF op.handler = "handleConvert"
                                                    THEN "Conversion completed"
                                                    ELSE "Compression completed"]]
                 \/ ImageFailed(k)
                 \/ /\ op.handler = "compressImages"
                    /\ imageConverter' = [imageConverter EXCEPT !.ops[k].pc = "pending"]
    /\ UNCHANGED exceptImageConverter

\* disabled={isProcessing} of the Convert and the Compress button
ImageDisabled == imageConverter.isProcessing

\* a click on the Convert or the Compress button
ImageClick == Len(imageConverter.files) > 0 /\ ~ImageDisabled /\ ImageInvoke

\* the lists of images the component is mounted with
ImageLists == { [i \in 1..n |-> ImageFile(i)] : n \in 0..MaxFiles }

---------------------------------------------------------------------------
(* The PDFConverter component *)

\* files.filter(f => f.type.startsWith('image/'))
imageFiles(fs) == SelectSeq(fs, LAMBDA f : StartsWith(f.type, ImagePrefix))

\* files.filter(f => f.type === 'application/pdf')
pdfFiles(fs) == SelectSeq(fs, LAMBDA f : f.type = ApplicationPdf)

\* new jsPDF(): a document of one blank page; a page is the list of the
\* images placed on it
NewJsPDF == << <<>> >>

\* pdf.addPage(): a blank page becomes the last and current page
AddPage(pdf) == Append(pdf, <<>>)

\* pdf.addImage(...): the image is placed on the current page
AddImage(pdf, image) == [pdf EXCEPT ![Len(pdf)] = Append(@, image)]

\* a page is added before every image, the first included
AlwaysNewPage(isFirstPage) == TRUE

\* if (!isFirstPage)
NeedsNewPage(isFirstPage) == ~isFirstPage

\* an invocation of convertImagesToPDF at its call
IdleToPdf ==
    [pc |-> "idle", live |-> TRUE, imageFiles |-> <<>>, i |-> 0, pdf |-> <<>>,
     isFirstPage |-> TRUE, downloads |-> <<>>, toast |-> "none"]

\* no call of convertPDFToImages yet
IdleToImages == [pc |-> "idle", toast |-> "none"]

\* the component as mounted with a `files` prop, no invocation of
\* convertImagesToPDF of this instance
PDFConverter(fs) ==
    [files |-> fs, isProcessing |-> FALSE, toPdf |-> <<>>, toImages |-> IdleToImages]

\* catch and finally of the k-th invocation of convertImagesToPDF
ConvertFailed(k) ==
    pdfConverter' = [pdfConverter EXCEPT
                        !.isProcessing = Released(pdfConverter.toPdf[k], @),
                        !.toPdf[k] = [@ EXCEPT !.pc = "done", !.toast = "Conversion failed"]]

\* the call up to the first await: the early return when there is no image,
\* or setIsProcessing(true); the handler closes over imageFiles
ConvertInvoke ==
    /\ LET kept == StillRunning(pdfConverter.toPdf)
       IN  IF Len(imageFiles(pdfConverter.files)) = 0
           THEN pdfConverter' =
                   [pdfConverter EXCEPT
                       !.toPdf = Append(kept, [IdleToPdf EXCEPT
                                                  !.pc = "done",
                                                  !.toast = "No images selected"])]
           ELSE pdfConverter' =
                   [pdfConverter EXCEPT
                       !.isProcessing = TRUE,
                       !.toPdf = Append(kept, [IdleToPdf EXCEPT
                                                  !.pc = "import",
                                                  !.imageFiles = imageFiles(pdfConverter.files)])]
    /\ UNCHANGED exceptPDFConverter

\* import('jspdf') settles; new jsPDF(), isFirstPage = true, and the first
\* image set to load
ConvertImport ==
    /\ \E k \in 1..Len(pdfConverter.toPdf) :
          /\ pdfConverter.toPdf[k].pc = "import"
          /\ \E ok \in BOOLEAN :
                IF ok
                THEN pdfConverter' =
                        [pdfConverter EXCEPT
                            !.toPdf[k] = [@ EXCEPT !.pc = "loop", !.i = 1, !.pdf = NewJsPDF,
                                                   !.isFirstPage = TRUE]]
                ELSE ConvertFailed(k)
    /\ UNCHANGED exceptPDFConverter

\* one turn of the loop over imageFiles. The image loads and onload draws it,
\* adds a page unless it is the first, places the image and resolves; or the
\* promise is rejected (onerror, no canvas context) and the catch block runs;
\* or a call inside onload throws, before or after addPage, and the promise
\* is never settled. After the last image pdf.save downloads the document,
\* unless it throws, and finally releases the flag.
ConvertLoop ==
    /\ \E k \in 1..Len(pdfConverter.toPdf) :
          LET op    == pdfConverter.toPdf[k]
              image == op.imageFiles[op.i].name
              paged == IF NeedsNewPage(op.isFirstPage) THEN AddPage(op.pdf) ELSE op.pdf
              drawn == AddImage(paged, image)
              last  == op.i = Len(op.imageFiles)
          IN  /\ op.pc = "loop"
              /\ \/ /\ ~last
                    /\ pdfConverter' =
                          [pdfConverter EXCEPT
                              !.toPdf[k] = [@ EXCEPT !.i = @ + 1, !.pdf = drawn,
                                                     !.isFirstPage = FALSE]]
                 \/ /\ last
                    /\ \E saved \in BOOLEAN :
                          pdfConverter' =
                             [pdfConverter EXCEPT
                                 !.isProcessing = Released(op, @),
                                 !.toPdf[k] = [@ EXCEPT
                                     !.i = @ + 1, !.pdf = drawn, !.isFirstPage = FALSE,
                                     !.downloads = IF saved THEN Append(@, drawn) ELSE @,
                                     !.pc = "done",
                                     !.toast = IF saved THEN "Conversion completed"
                                               ELSE "Conversion failed"]]
                 \/ ConvertFailed(k)
                 \/ \E p \in {op.pdf, paged} :
                       pdfConverter' = [pdfConverter EXCEPT
                                           !.toPdf[k] = [@ EXCEPT !.pc = "pending", !.pdf = p]]
    /\ UNCHANGED exceptPDFConverter

convertImagesToPDF == ConvertInvoke \/ ConvertImport \/ ConvertLoop

\* the whole of convertPDFToImages, which awaits nothing: the early return
\* when there is no PDF, or setIsProcessing(true), the toast, and
\* setIsProcessing(false) in finally
convertPDFToImages ==
    /\ IF Len(pdfFiles(pdfConverter.files)) = 0
       THEN pdfConverter' =
               [pdfConverter EXCEPT
                   !.toImages = [pc |-> "done", toast |-> "No PDFs selected"]]
       ELSE pdfConverter' =
               [pdfConverter EXCEPT
                   !.isProcessing = FALSE,
                   !.toImages = [pc |-> "done", toast |-> "PDF to Image conversion"]]
    /\ UNCHANGED exceptPDFConverter

\* disabled={isProcessing || imageFiles.length === 0} of the Images-to-PDF
\* button
ToPdfDisabled ==
    pdfConverter.isProcessing \/ Len(imageFiles(pdfConverter.files)) = 0

\* disabled={isProcessing || pdfFiles.length === 0} of the PDF-to-Images
\* button
ToImagesDisabled ==
    pdfConverter.isProcessing \/ Len(pdfFiles(pdfConverter.files)) = 0

\* a click on a button reaches its handler when the button is not disabled
ToPdfClick    == ~ToPdfDisabled /\ ConvertInvoke
ToImagesClick == ~ToImagesDisabled /\ convertPDFToImages

\* the upload lists the component is mounted with: images and PDFs
UploadLists ==
    UNION { { [i \in 1..n |-> UploadedFile(i, t[i])] :
                t \in [1..n -> {ImagePng, ImageJpeg, ApplicationPdf}] }
            : n \in 0..MaxUploads }

---------------------------------------------------------------------------
(* The FileUpload component *)

\* nothing dropped or selected yet
IdleUpload ==
    [isProcessing |-> FALSE, batch |-> <<>>, called |-> FALSE, passed |-> <<>>,
     toasts |-> <<>>]

\* Index as first rendered: no file, the upload tab shown; `dropped` counts
\* the files dropped so far and names the next one
IdleIndex == [uploadedFiles |-> <<>>, activeTab |-> "upload", dropped |-> 0]

\* types a browser reports that are neither an image type nor the PDF type
TextPlain == <<"t", "e", "x", "t", "/", "p", "l", "a", "i", "n">>
ImageNoSlash == <<"i", "m", "a", "g", "e">>
NoType == <<>>

SampleTypes == {ImagePng, ApplicationPdf, TextPlain, ImageNoSlash, NoType}

\* the size limit of the upload, in bytes
SizeLimit == 50 * 1024 * 1024

SampleSizes == {0, SizeLimit - 1, SizeLimit, SizeLimit + 1}

\* the FileLists dropped or selected: one file or more, a file named by its
\* position in the list
Batches ==
    UNION { { [i \in 1..n |-> [name |-> i, size |-> z[i], type |-> t[i]]] :
                z \in [1..n -> SampleSizes], t \in [1..n -> SampleTypes] }
            : n \in 1..MaxFiles }

\* what Math.random returns during processFiles of a list of n files: a value
\* for each file that is accepted, any value any number of times
Randoms(n) == [1..n -> 1..MaxUploads]

\* a file of exactly the limit is refused
TooLargeAtLimit(size) == size >= 50 * 1024 * 1024

\* file.size > 50 * 1024 * 1024
TooLarge(size) == size > 50 * 1024 * 1024

\* file.type.startsWith('image/')
isImage(type) == StartsWith(type, ImagePrefix)

\* file.type === 'application/pdf'
isPDF(type) == type = ApplicationPdf

\* the body of the forEach callback for one file, on the list `files` built
\* so far and the toasts shown so far; `random` is what Math.random returns
\* if it is called
ProcessFile(acc, file, random) ==
    IF TooLarge(file.size)
    THEN [acc EXCEPT !.toasts = Append(@, [title |-> "File too large", name |-> file.name])]
    ELSE IF ~isImage(file.type) /\ ~isPDF(file.type)
    THEN [acc EXCEPT !.toasts = Append(@, [title |-> "Unsupported format", name |-> file.name])]
    ELSE [acc EXCEPT !.files = Append(@, [id |-> FileId(random), name |-> file.name,
                                         size |-> file.size, type |-> file.type,
                                         progress |-> 100, status |-> "completed"])]

\* Array.from(fileList).forEach(...); randoms[k] is what the k-th call of
\* Math.random returns
RECURSIVE ForEachFile(_, _, _)
ForEachFile(acc, fileList, randoms) ==
    IF fileList = <<>> THEN acc
    ELSE ForEachFile(ProcessFile(acc, Head(fileList), randoms[Len(acc.files) + 1]),
                     Tail(fileList), randoms)

\* processFiles(fileList): synchronous from setIsProcessing(true) to
\* setIsProcessing(false); onFilesUploaded is called when a file was accepted
Processed(fileList, randoms) ==
    LET r == ForEachFile([files |-> <<>>, toasts |-> <<>>], fileList, randoms)
    IN  [isProcessing |-> FALSE,
         batch  |-> fileList,
         called |-> Len(r.files) > 0,
         passed |-> r.files,
         toasts |-> IF Len(r.files) > 0
                    THEN Append(r.toasts, [title |-> "Files uploaded successfully",
                                           name |-> Len(r.files)])
                    ELSE r.toasts]

\* processFiles(fileList) in a FileUpload whose parent is left aside
processFiles(fileList, randoms) ==
    /\ fileUpload' = Processed(fileList, randoms)
    /\ UNCHANGED exceptFileUpload

\* handleDrop and handleFileSelect: a list that is not empty is processed.
\* processFiles reads nothing of the component's state, so a second batch is
\* processed as the first is; the first batch after mounting is followed.
HandleFiles ==
    /\ fileUpload.batch = <<>>
    /\ \E fileList \in Batches : \E randoms \in Randoms(Len(fileList)) :
          processFiles(fileList, randoms)

---------------------------------------------------------------------------
(* The Index page: the upload list, the tabs and what each tab is given *)

\* the PDF tools are handed the whole upload list
AllFiles(uploaded) == uploaded

\* uploadedFiles.filter(f => f.type.startsWith('image/'))
ImageToolsFiles(uploaded) == SelectSeq(uploaded, LAMBDA f : StartsWith(f.type, ImagePrefix))

\* uploadedFiles.filter(f => f.type === 'application/pdf')
PdfToolsFiles(uploaded) == SelectSeq(uploaded, LAMBDA f : f.type = ApplicationPdf)

\* the render of the Tabs: the content of the active tab alone is mounted,
\* as a new instance with its props; `upload` is what the FileUpload has
\* done: the record of the processFiles call of this step (kept when that
\* call switches the tab), that of the mounted upload tab, or none. The
\* invocations of the instances that were mounted run on.
Render(tab, uploaded, upload) ==
    /\ fileUpload' = upload
    /\ imageConverter' =
          [ImageConverter(IF tab = "image-convert" THEN ImageToolsFiles(uploaded) ELSE <<>>)
              EXCEPT !.ops = Unmounted(imageConverter.ops)]
    /\ pdfConverter' =
          [PDFConverter(IF tab = "pdf-convert" THEN uploaded ELSE <<>>)
              EXCEPT !.toPdf = Unmounted(pdfConverter.toPdf),
                     !.toImages = pdfConverter.toImages]
    /\ files' = IF tab = "pdf-manipulate" THEN PdfToolsFiles(uploaded) ELSE <<>>
    /\ mergeOrder' = Ids(files')
    /\ splitRange' = <<>>
    /\ splitMode' = "range"
    /\ isProcessing' = FALSE
    /\ mergeOps' = Unmounted(mergeOps)
    /\ splitOps' = Unmounted(splitOps)
    /\ rotationAngle' = Num(90)
    /\ pendingEffect' = (tab = "pdf-manipulate")
    /\ UNCHANGED <<rangeVars, compressOp>>

\* the FileLists dropped on the upload tab: one file or two, named by their
\* number among the files dropped so far
IndexBatches(dropped) ==
    UNION { { [i \in 1..n |-> [name |-> dropped + i, size |-> z[i], type |-> t[i]]] :
                z \in [1..n -> {0, SizeLimit + 1}],
                t \in [1..n -> {ImagePng, ApplicationPdf, TextPlain}] }
            : n \in 1..2 }

\* the tab after handleFilesUploaded(fs)
TabAfterUpload(fs, activeTab) ==
    LET hasImages == \E k \in 1..Len(fs) : StartsWith(fs[k].type, ImagePrefix)
        hasPDFs   == \E k \in 1..Len(fs) : fs[k].type = ApplicationPdf
    IN  IF Len(fs) > 0 /\ activeTab = "upload"
        THEN IF hasImages /\ ~hasPDFs THEN "image-convert"
             ELSE IF hasPDFs /\ ~hasImages THEN "pdf-convert"
             ELSE activeTab
        ELSE activeTab

\* a drop or a selection on the upload tab: processFiles, and
\* handleFilesUploaded(files) when a file was accepted
handleFilesUploaded ==
    /\ Index.activeTab = "upload"
    /\ \E fileList \in IndexBatches(Index.dropped) : \E randoms \in Randoms(Len(fileList)) :
          /\ Index.dropped + Len(fileList) <= MaxUploads
          /\ LET upload == Processed(fileList, randoms)
                 fs     == upload.passed
                 tab    == IF upload.called
                           THEN TabAfterUpload(fs, Index.activeTab)
                           ELSE Index.activeTab
             IN  /\ Index' = [uploadedFiles |-> Index.uploadedFiles \o fs,
                              activeTab     |-> tab,
                              dropped       |-> Index.dropped + Len(fileList)]
                 /\ Render(tab, Index'.uploadedFiles, upload)

\* the Remove button of a row of the upload tab: removeFile(file.id)
removeFile ==
    /\ Index.activeTab = "upload"
    /\ \E k \in 1..Len(Index.uploadedFiles) :
          LET id == Index.uploadedFiles[k].id
          IN  Index' = [Index EXCEPT !.uploadedFiles = SelectSeq(@, LAMBDA f : f.id # id)]
    /\ Render(Index.activeTab, Index'.uploadedFiles, fileUpload)

\* the Clear All button of the upload tab, shown when the list is not empty
clearAllFiles ==
    /\ Index.activeTab = "upload"
    /\ Len(Index.uploadedFiles) > 0
    /\ Index' = [Index EXCEPT !.uploadedFiles = <<>>]
    /\ Render(Index.activeTab, Index'.uploadedFiles, fileUpload)

\* onValueChange of the Tabs: a click on the trigger of another tab
setActiveTab ==
    \E value \in {"upload", "image-convert", "pdf-convert", "pdf-manipulate"} :
        /\ value # Index.activeTab
        /\ Index' = [Index EXCEPT !.activeTab = value]
        /\ Render(value, Index.uploadedFiles, IdleUpload)

---------------------------------------------------------------------------
(* The PDFManipulator component *)

\* an invocation of mergePDFs at its call
IdleMerge ==
    [pc |-> "idle", live |-> TRUE, files |-> <<>>, order |-> <<>>, i |-> 0,
     doc |-> <<>>, pdf |-> <<>>, merged |-> <<>>, downloads |-> <<>>,
     toast |-> "none", count |-> 0]

\* no call of compressPDF yet
IdleCompress == [pc |-> "idle", toast |-> "none"]

\* an invocation of splitPDF at its call
IdleSplit ==
    [pc |-> "idle", live |-> TRUE, files |-> <<>>, range |-> <<>>, mode |-> "range",
     pdf |-> <<>>, sel |-> <<>>, k |-> 0, newPdf |-> <<>>, downloads |-> <<>>,
     toast |-> "none", count |-> 0]

\* texts typed into the page-range input
SampleRanges ==
    { <<>>, <<" ">>, <<"\\u00A0">>, <<"9">>, <<"2", ",", "1">>,
      <<"1", "-", "2", ",", "2">>, <<"3">> }

\* lists of n PDF files with the page counts c and the ids of the values d
\* of Math.random
Files(n, c, d) == [i \in 1..n |-> PdfFile(i, d[i], c[i])]

\* the lists of PDF files the component is mounted with: files of any page
\* counts with ids that differ, and files of one page, two pages and so on
\* with ids that do not
FileLists ==
    UNION { { Files(n, x[1], x[2]) :
                x \in { y \in [1..n -> 0..MaxPages] \X Draws(n) :
                          Distinct(y[2]) \/ \A i \in 1..n : y[1][i] = Min({i, MaxPages}) } }
            : n \in 0..MaxFiles }

\* the lists of one-page PDF files, up to m files
OnePageLists(m) ==
    UNION { { Files(n, [i \in 1..n |-> 1], d) : d \in Draws(n) } : n \in 0..m }

\* the component as mounted with the `files` prop fs, the effect of the
\* mount run: the useState initial values, no invocation of a handler
Mounted(fs) ==
    /\ files = fs
    /\ mergeOrder = Ids(fs)
    /\ splitRange = <<>>
    /\ splitMode = "range"
    /\ isProcessing = FALSE
    /\ mergeOps = <<>>
    /\ splitOps = <<>>
    /\ rotationAngle = Num(90)
    /\ compressOp = IdleCompress
    /\ pendingEffect = FALSE

\* no call of parsePageRange under way
RangeAtRest ==
    /\ range = <<>>
    /\ totalPages = 1
    /\ pages = <<>>
    /\ parsePc = "call"

\* the other components and the page as first rendered
OthersAtRest ==
    /\ imageConverter = ImageConverter(<<>>)
    /\ pdfConverter = PDFConverter(<<>>)
    /\ fileUpload = IdleUpload
    /\ Index = IdleIndex

Init ==
    /\ \E fs \in FileLists : Mounted(fs)
    /\ OthersAtRest
    /\ RangeAtRest

\* the row is overwritten by its neighbour instead of exchanged with it
newOrderOverwrite(order, index, direction) ==
    LET targetIndex == IF direction = "up" THEN index - 1 ELSE index + 1
    IN  IF targetIndex >= 0 /\ targetIndex < Len(order)
        THEN [order EXCEPT ![index + 1] = order[targetIndex + 1]]
        ELSE order

\* newOrder of movePDF when it is stored: the copy of mergeOrder, its
\* entries at index and targetIndex exchanged if targetIndex is in the list
newOrder(order, index, direction) ==
    LET targetIndex == IF direction = "up" THEN index - 1 ELSE index + 1
    IN  IF targetIndex >= 0 /\ targetIndex < Len(order)
        THEN [order EXCEPT ![index + 1] = order[targetIndex + 1],
                           ![targetIndex + 1] = order[index + 1]]
        ELSE order

\* movePDF(index, direction), index 0-based
movePDF(index, direction) ==
    /\ mergeOrder' = newOrder(mergeOrder, index, direction)
    /\ UNCHANGED <<files, splitRange, splitMode, isProcessing, mergeOps, splitOps>>
    /\ UNCHANGED <<rangeVars, panelVars, elsewhere>>

\* a click on an arrow of a row of the order list: the list is rendered
\* when there are files, a row when files.find gives its file
MovePDF ==
    /\ Len(files) > 0
    /\ \E index \in 0..(Len(mergeOrder) - 1) : \E direction \in {"up", "down"} :
          /\ Find(files, mergeOrder[index + 1]) # 0
          /\ movePDF(index, direction)

\* onChange of the page-range input, rendered when there are files
SetSplitRange ==
    /\ Len(files) > 0
    /\ \E value \in SampleRanges : splitRange' = value
    /\ UNCHANGED <<files, mergeOrder, splitMode, isProcessing, mergeOps, splitOps>>
    /\ UNCHANGED <<rangeVars, panelVars, elsewhere>>

\* onValueChange of the split-mode select, rendered when there are files
SetSplitMode ==
    /\ Len(files) > 0
    /\ \E value \in {"range", "individual"} : splitMode' = value
    /\ UNCHANGED <<files, mergeOrder, splitRange, isProcessing, mergeOps, splitOps>>
    /\ UNCHANGED <<rangeVars, panelVars, elsewhere>>

---------------------------------------------------------------------------
(* mergePDFs *)

\* files.length < 1
FewerThanOne(fs) == Len(fs) < 1

\* files.length < 2
FewerThanTwo(fs) == Len(fs) < 2

\* catch and finally of the k-th invocation of mergePDFs: the failure toast,
\* the flag released; the documents of the try block are gone with it
MergeFailed(k) ==
    /\ mergeOps' = [mergeOps EXCEPT ![k] =
                       [@ EXCEPT !.pc = "done", !.toast = "Merge failed",
                                 !.i = 0, !.doc = <<>>, !.pdf = <<>>, !.merged = <<>>]]
    /\ isProcessing' = Released(mergeOps[k], isProcessing)

\* the k-th invocation goes on as op
MergeGoesOn(k, op) ==
    /\ mergeOps' = [mergeOps EXCEPT ![k] = op]
    /\ UNCHANGED isProcessing

\* the loop over mergeOrder from its turn `from` to the next await: entries
\* that find no file are skipped; arrayBuffer() is called on the file of the
\* first entry that finds one, or, past the last entry, mergedPdf.save()
NextTurn(op, from) ==
    LET found == {i \in from..Len(op.order) : Find(op.files, op.order[i]) # 0}
    IN  IF found = {}
        THEN [op EXCEPT !.pc = "save", !.i = Len(op.order) + 1, !.pdf = <<>>]
        ELSE [op EXCEPT !.pc = "arrayBuffer", !.i = Min(found), !.pdf = <<>>]

\* the call up to the first await: the early return, or setIsProcessing(true);
\* the handler closes over the files and mergeOrder of the render it was made in
MergeInvoke ==
    /\ IF FewerThanTwo(files)
       THEN /\ mergeOps' = Append(StillRunning(mergeOps),
                                  [IdleMerge EXCEPT !.pc = "done",
                                                    !.toast = "Not enough files"])
            /\ UNCHANGED isProcessing
       ELSE /\ mergeOps' = Append(StillRunning(mergeOps),
                                  [IdleMerge EXCEPT !.pc = "import", !.files = files,
                                                    !.order = mergeOrder])
            /\ isProcessing' = TRUE
    /\ UNCHANGED <<files, mergeOrder, splitRange, splitMode, splitOps>>
    /\ UNCHANGED <<rangeVars, panelVars, elsewhere>>

\* await import('pdf-lib') settles; PDFDocument.create() is called
MergeImport ==
    /\ \E k \in 1..Len(mergeOps) :
          /\ mergeOps[k].pc = "import"
          /\ \E ok \in BOOLEAN :
                IF ok THEN MergeGoesOn(k, [mergeOps[k] EXCEPT !.pc = "create"])
                      ELSE MergeFailed(k)
    /\ UNCHANGED <<files, mergeOrder, splitRange, splitMode, splitOps>>
    /\ UNCHANGED <<rangeVars, panelVars, elsewhere>>

\* await PDFDocument.create() settles: mergedPdf is an empty document, and
\* the loop over mergeOrder is entered
MergeCreate ==
    /\ \E k \in 1..Len(mergeOps) :
          /\ mergeOps[k].pc = "create"
          /\ \E ok \in BOOLEAN :
                IF ok THEN MergeGoesOn(k, NextTurn([mergeOps[k] EXCEPT !.doc = <<>>], 1))
                      ELSE MergeFailed(k)
    /\ UNCHANGED <<files, mergeOrder, splitRange, splitMode, splitOps>>
    /\ UNCHANGED <<rangeVars, panelVars, elsewhere>>

\* await file.file.arrayBuffer() settles; PDFDocument.load is called
MergeArrayBuffer ==
    /\ \E k \in 1..Len(mergeOps) :
          /\ mergeOps[k].pc = "arrayBuffer"
          /\ \E ok \in BOOLEAN :
                IF ok THEN MergeGoesOn(k, [mergeOps[k] EXCEPT !.pc = "load"])
                      ELSE MergeFailed(k)
    /\ UNCHANGED <<files, mergeOrder, splitRange, splitMode, splitOps>>
    /\ UNCHANGED <<rangeVars, panelVars, elsewhere>>

\* await PDFDocument.load(arrayBuffer) settles: pdf is the document of the
\* file that find returned; copyPages is called with all its page indices
MergeLoad ==
    /\ \E k \in 1..Len(mergeOps) :
          LET op == mergeOps[k]
              at == Find(op.files, op.order[op.i])
          IN  /\ op.pc = "load"
              /\ \E ok \in BOOLEAN :
                    IF ok THEN MergeGoesOn(k, [op EXCEPT !.pc = "copyPages",
                                                         !.pdf = LoadDocument(op.files[at])])
                          ELSE MergeFailed(k)
    /\ UNCHANGED <<files, mergeOrder, splitRange, splitMode, splitOps>>
    /\ UNCHANGED <<rangeVars, panelVars, elsewhere>>

\* await mergedPdf.copyPages(pdf, pdf.getPageIndices()) settles: every copied
\* page is appended, and the loop goes to its next turn
MergeCopyPages ==
    /\ \E k \in 1..Len(mergeOps) :
          LET op     == mergeOps[k]
              at     == Find(op.files, op.order[op.i])
              copied == CopyPages(op.pdf, GetPageIndices(op.pdf))
          IN  /\ op.pc = "copyPages"
              /\ \E ok \in BOOLEAN :
                    IF ok THEN MergeGoesOn(k, NextTurn([op EXCEPT
                                                           !.doc = AddPages(@, copied),
                                                           !.merged = Append(@, at)],
                                                       op.i + 1))
                          ELSE MergeFailed(k)
    /\ UNCHANGED <<files, mergeOrder, splitRange, splitMode, splitOps>>
    /\ UNCHANGED <<rangeVars, panelVars, elsewhere>>

\* await mergedPdf.save() settles: merged_document.pdf is downloaded, the
\* success toast names files.length, finally releases the flag
MergeSave ==
    /\ \E k \in 1..Len(mergeOps) :
          LET op == mergeOps[k]
          IN  /\ op.pc = "save"
              /\ \E ok \in BOOLEAN :
                    IF ok
                    THEN /\ mergeOps' = [mergeOps EXCEPT ![k] =
                                            [op EXCEPT !.pc = "done",
                                                       !.downloads = Append(@, op.doc),
                                                       !.toast = "Merge completed",
                                                       !.count = Len(op.files)]]
                         /\ isProcessing' = Released(op, isProcessing)
                    ELSE MergeFailed(k)
    /\ UNCHANGED <<files, mergeOrder, splitRange, splitMode, splitOps>>
    /\ UNCHANGED <<rangeVars, panelVars, elsewhere>>

\* the continuations of the invocations of mergePDFs
MergeSteps ==
    \/ MergeImport \/ MergeCreate \/ MergeArrayBuffer \/ MergeLoad
    \/ MergeCopyPages \/ MergeSave

mergePDFs == MergeInvoke \/ MergeSteps

---------------------------------------------------------------------------
(* splitPDF *)

\* pages.length > 0 is never tested
NeverEmpty(list) == FALSE

\* pages.length === 0
IsEmptySelection(list) == Len(list) = 0

\* every selected page is taken from the first page of the source
PageIndexFirst(pageNum) == 0

\* pageNum - 1: the 0-based index handed to copyPages for a 1-based page
PageIndex(pageNum) == pageNum - 1

\* the number of files the success toast reports:
\* splitMode === 'range' ? '1 file' : `${pages.length} files`
ReportedCount(mode, sel) == IF mode = "range" THEN 1 ELSE Len(sel)

\* catch and finally of the k-th invocation of splitPDF, its locals being
\* those of op: the failure toast, the flag released
SplitFailed(k, op) ==
    /\ splitOps' = [splitOps EXCEPT ![k] = [op EXCEPT !.pc = "done", !.toast = "Split failed"]]
    /\ isProcessing' = Released(op, isProcessing)

\* the k-th invocation goes on as op
SplitGoesOn(k, op) ==
    /\ splitOps' = [splitOps EXCEPT ![k] = op]
    /\ UNCHANGED isProcessing

\* the call up to the first await: the two early returns, or
\* setIsProcessing(true); the handler closes over files, splitRange, splitMode
SplitInvoke ==
    /\ IF Len(files) # 1
       THEN /\ splitOps' = Append(StillRunning(splitOps),
                                  [IdleSplit EXCEPT !.pc = "done", !.toast = "Select one PDF"])
            /\ UNCHANGED isProcessing
       ELSE IF Trim(splitRange) = <<>>
       THEN /\ splitOps' = Append(StillRunning(splitOps),
                                  [IdleSplit EXCEPT !.pc = "done", !.toast = "Enter page range"])
            /\ UNCHANGED isProcessing
       ELSE /\ splitOps' = Append(StillRunning(splitOps),
                                  [IdleSplit EXCEPT !.pc = "import", !.files = files,
                                                    !.range = splitRange, !.mode = splitMode])
            /\ isProcessing' = TRUE
    /\ UNCHANGED <<files, mergeOrder, splitRange, splitMode, mergeOps>>
    /\ UNCHANGED <<rangeVars, panelVars, elsewhere>>

\* await import('pdf-lib') settles; files[0].file.arrayBuffer() is called
SplitImport ==
    /\ \E k \in 1..Len(splitOps) :
          /\ splitOps[k].pc = "import"
          /\ \E ok \in BOOLEAN :
                IF ok THEN SplitGoesOn(k, [splitOps[k] EXCEPT !.pc = "arrayBuffer"])
                      ELSE SplitFailed(k, splitOps[k])
    /\ UNCHANGED <<files, mergeOrder, splitRange, splitMode, mergeOps>>
    /\ UNCHANGED <<rangeVars, panelVars, elsewhere>>

\* await file.file.arrayBuffer() settles; PDFDocument.load is called
SplitArrayBuffer ==
    /\ \E k \in 1..Len(splitOps) :
          /\ splitOps[k].pc = "arrayBuffer"
          /\ \E ok \in BOOLEAN :
                IF ok THEN SplitGoesOn(k, [splitOps[k] EXCEPT !.pc = "load"])
                      ELSE SplitFailed(k, splitOps[k])
    /\ UNCHANGED <<files, mergeOrder, splitRange, splitMode, mergeOps>>
    /\ UNCHANGED <<rangeVars, panelVars, elsewhere>>

\* await PDFDocument.load(arrayBuffer) settles: parsePageRange, the throw on
\* an empty selection, and PDFDocument.create() called for the one document
\* of mode 'range' or for the first selected page
SplitLoad ==
    /\ \E k \in 1..Len(splitOps) :
          LET op  == splitOps[k]
              pdf == LoadDocument(op.files[1])
              sel == parsePageRange(op.range, GetPageCount(pdf))
          IN  /\ op.pc = "load"
              /\ \E ok \in BOOLEAN :
                    IF ~ok THEN SplitFailed(k, op)
                    ELSE IF IsEmptySelection(sel)
                    THEN SplitFailed(k, [op EXCEPT !.pdf = pdf])
                    ELSE IF op.mode = "individual" /\ Len(sel) = 0
                    THEN /\ splitOps' = [splitOps EXCEPT ![k] =
                                            [op EXCEPT !.pc = "done", !.pdf = pdf,
                                                       !.toast = "Split completed",
                                                       !.count = ReportedCount(op.mode, sel)]]
                         /\ isProcessing' = Released(op, isProcessing)
                    ELSE SplitGoesOn(k, [op EXCEPT !.pc = "create", !.pdf = pdf,
                                                   !.sel = sel, !.k = 1])
    /\ UNCHANGED <<files, mergeOrder, splitRange, splitMode, mergeOps>>
    /\ UNCHANGED <<rangeVars, panelVars, elsewhere>>

\* await PDFDocument.create() settles: newPdf is an empty document;
\* copyPages is called with the selected pages (mode 'range') or with the
\* page of the turn
SplitCreate ==
    /\ \E k \in 1..Len(splitOps) :
          /\ splitOps[k].pc = "create"
          /\ \E ok \in BOOLEAN :
                IF ok THEN SplitGoesOn(k, [splitOps[k] EXCEPT !.pc = "copyPages",
                                                              !.newPdf = <<>>])
                      ELSE SplitFailed(k, splitOps[k])
    /\ UNCHANGED <<files, mergeOrder, splitRange, splitMode, mergeOps>>
    /\ UNCHANGED <<rangeVars, panelVars, elsewhere>>

\* await newPdf.copyPages(...) settles: the copied pages are added, and
\* newPdf.save() is called
SplitCopyPages ==
    /\ \E k \in 1..Len(splitOps) :
          LET op     == splitOps[k]
              copied == IF op.mode = "range"
                        THEN CopyPages(op.pdf, ZeroBased(op.sel))
                        ELSE <<CopyPages(op.pdf, <<PageIndex(op.sel[op.k])>>)[1]>>
          IN  /\ op.pc = "copyPages"
              /\ \E ok \in BOOLEAN :
                    IF ok THEN SplitGoesOn(k, [op EXCEPT !.pc = "save",
                                                         !.newPdf = AddPages(@, copied)])
                          ELSE SplitFailed(k, op)
    /\ UNCHANGED <<files, mergeOrder, splitRange, splitMode, mergeOps>>
    /\ UNCHANGED <<rangeVars, panelVars, elsewhere>>

\* await newPdf.save() settles: the document is downloaded. In mode 'range',
\* and after the last selected page, the success toast follows and finally
\* releases the flag; otherwise PDFDocument.create() is called for the next
\* page.
SplitSave ==
    /\ \E k \in 1..Len(splitOps) :
          LET op   == splitOps[k]
              last == op.mode = "range" \/ op.k = Len(op.sel)
          IN  /\ op.pc = "save"
              /\ \E ok \in BOOLEAN :
                    IF ~ok THEN SplitFailed(k, op)
                    ELSE IF last
                    THEN /\ splitOps' = [splitOps EXCEPT ![k] =
                                            [op EXCEPT !.pc = "done",
                                                       !.downloads = Append(@, op.newPdf),
                                                       !.toast = "Split completed",
                                                       !.count = ReportedCount(op.mode, op.sel)]]
                         /\ isProcessing' = Released(op, isProcessing)
                    ELSE SplitGoesOn(k, [op EXCEPT !.pc = "create", !.k = @ + 1,
                                                   !.downloads = Append(@, op.newPdf)])
    /\ UNCHANGED <<files, mergeOrder, splitRange, splitMode, mergeOps>>
    /\ UNCHANGED <<rangeVars, panelVars, elsewhere>>

\* the continuations of the invocations of splitPDF
SplitSteps ==
    \/ SplitImport \/ SplitArrayBuffer \/ SplitLoad
    \/ SplitCreate \/ SplitCopyPages \/ SplitSave

splitPDF == SplitInvoke \/ SplitSteps

\* onValueChange of the angle select of the rotate panel:
\* setRotationAngle(parseInt(value)), value one of the three items; the
\* select is rendered when there are files
SetRotationAngle ==
    /\ Len(files) > 0
    /\ \E value \in {<<"9", "0">>, <<"1", "8", "0">>, <<"2", "7", "0">>} :
          rotationAngle' = ParseInt(value)
    /\ UNCHANGED <<compVars, compressOp, pendingEffect, rangeVars, elsewhere>>

---------------------------------------------------------------------------
(* compressPDF *)

\* the call also empties the page-range input
compressPDFClearsRange ==
    /\ compressOp' = [pc |-> "done", toast |-> "PDF compression"]
    /\ isProcessing' = FALSE
    /\ splitRange' = <<>>
    /\ UNCHANGED <<files, mergeOrder, splitMode, mergeOps, splitOps, rotationAngle>>
    /\ UNCHANGED <<pendingEffect, rangeVars, elsewhere>>

\* the whole call, which awaits nothing: the early return on an empty list,
\* or setIsProcessing(true), the toast, and setIsProcessing(false) in finally
compressPDF ==
    /\ IF Len(files) = 0
       THEN /\ compressOp' = [pc |-> "done", toast |-> "No PDFs selected"]
            /\ UNCHANGED isProcessing
       ELSE /\ compressOp' = [pc |-> "done", toast |-> "PDF compression"]
            /\ isProcessing' = FALSE
    /\ UNCHANGED <<files, mergeOrder, splitRange, splitMode, mergeOps, splitOps, rotationAngle>>
    /\ UNCHANGED <<pendingEffect, rangeVars, elsewhere>>

---------------------------------------------------------------------------
(* The three buttons of the PDFManipulator *)

\* a button that is never disabled
NeverDisabled == FALSE

\* disabled={isProcessing || files.length < 2} of the Merge button
MergeDisabled == isProcessing \/ Len(files) < 2

\* disabled={isProcessing || files.length !== 1} of the Split button
SplitDisabled == isProcessing \/ Len(files) # 1

\* disabled={isProcessing} of the Compress button
CompressDisabled == isProcessing

\* a click on a button reaches its handler when the button is not disabled
MergeClick    == ~MergeDisabled /\ MergeInvoke
SplitClick    == ~SplitDisabled /\ SplitInvoke
CompressClick == Len(files) > 0 /\ ~CompressDisabled /\ compressPDF

\* the merge panel: the order list and the Merge button
NextMerge == MovePDF \/ MergeClick \/ MergeSteps

SpecMerge == Init /\ [][NextMerge]_vars

\* the split panel: the mode select, the range input and the Split button
NextSplit == SetSplitRange \/ SetSplitMode \/ SplitClick \/ SplitSteps

SpecSplit == Init /\ [][NextSplit]_vars

\* the whole component
Next == NextMerge \/ NextSplit \/ SetRotationAngle \/ CompressClick

Spec == Init /\ [][Next]_vars

\* the three buttons and the inputs of the split panel, on files of one
\* page, the order list left as mounted
NextButtons ==
    \/ SetSplitRange \/ SetSplitMode
    \/ MergeClick \/ MergeSteps
    \/ SplitClick \/ SplitSteps
    \/ CompressClick

InitButtons ==
    /\ \E fs \in OnePageLists(MaxFiles) : Mounted(fs)
    /\ OthersAtRest
    /\ RangeAtRest

SpecButtons == InitButtons /\ [][NextButtons]_vars

---------------------------------------------------------------------------
(* The handlers called without their buttons *)


\* the range texts of these calls: blank ones and a page
CallRanges == { <<>>, <<"\\u00A0", " ">>, <<"1">> }

\* the lists of these calls: no file, one file, and two files with
\* different ids or with the same id
CallLists == OnePageLists(2)

\* onChange of the page-range input
SetCallRange ==
    /\ Len(files) > 0
    /\ \E value \in CallRanges : splitRange' = value
    /\ UNCHANGED <<files, mergeOrder, splitMode, isProcessing, mergeOps, splitOps>>
    /\ UNCHANGED <<rangeVars, panelVars, elsewhere>>

\* mergePDFs(), splitPDF() and compressPDF() called whatever the buttons
\* show, also while invocations are running
NextCalls ==
    \/ SetCallRange
    \/ (Len(StillRunning(mergeOps)) < MaxCalls /\ MergeInvoke)
    \/ MergeSteps
    \/ (Len(StillRunning(splitOps)) < MaxCalls /\ SplitInvoke)
    \/ SplitSteps
    \/ compressPDF

InitCalls ==
    /\ \E fs \in CallLists : Mounted(fs)
    /\ OthersAtRest
    /\ RangeAtRest

SpecCalls == InitCalls /\ [][NextCalls]_vars

---------------------------------------------------------------------------
(* The order list of the merge panel, long enough for a row to have rows on
   both sides *)

\* the lists of one-page PDF files the component is mounted with
RowLists == OnePageLists(MaxRows)

InitOrder ==
    /\ \E fs \in RowLists : Mounted(fs)
    /\ OthersAtRest
    /\ RangeAtRest

SpecOrder == InitOrder /\ [][MovePDF]_vars

---------------------------------------------------------------------------
(* The `files` prop of a mounted PDFManipulator, and mounting it again *)

\* the lists of PDF entries the parent hands over: none; two PDFs, the second
\* with an id of its own or with the id of the first; the second of them with
\* a third
SelectedLists ==
    { <<>>,
      <<PdfFile(1, 1, 1), PdfFile(2, 2, 1)>>,
      <<PdfFile(1, 1, 1), PdfFile(2, 1, 1)>>,
      <<PdfFile(2, 2, 1), PdfFile(3, 3, 1)>> }

\* useEffect(() => setMergeOrder(files.map(f => f.id)), [files])
ResetOrder(fs) == Ids(fs)

\* a render with another `files` prop is committed: the order list still
\* holds the order of the render before, the effect on [files] is yet to run;
\* a handler in flight keeps the files and the order it closed over
FilesChange ==
    /\ \E fs \in SelectedLists : files' = fs
    /\ pendingEffect' = TRUE
    /\ UNCHANGED <<mergeOrder, splitRange, splitMode, isProcessing, mergeOps, splitOps>>
    /\ UNCHANGED <<rotationAngle, compressOp, rangeVars, elsewhere>>

\* the effect on [files] of the committed render runs, after a mount as
\* after a render with another `files` prop
FilesEffect ==
    /\ pendingEffect
    /\ mergeOrder' = ResetOrder(files)
    /\ pendingEffect' = FALSE
    /\ UNCHANGED <<files, splitRange, splitMode, isProcessing, mergeOps, splitOps>>
    /\ UNCHANGED <<rotationAngle, compressOp, rangeVars, elsewhere>>

\* the tab is left and opened again: a new instance with the useState initial
\* values is committed, its effect on [files] is yet to run; the invocations
\* of the old instance run on with its closures, and what they set reaches no
\* mounted instance
Remount ==
    /\ \E fs \in SelectedLists :
          /\ files' = fs
          /\ mergeOrder' = Ids(fs)
    /\ splitRange' = <<>>
    /\ splitMode' = "range"
    /\ isProcessing' = FALSE
    /\ mergeOps' = Unmounted(mergeOps)
    /\ splitOps' = Unmounted(splitOps)
    /\ rotationAngle' = Num(90)
    /\ pendingEffect' = TRUE
    /\ UNCHANGED <<rangeVars, compressOp, elsewhere>>

\* the merge panel under changes of the file list: the tab is left and
\* opened again, also while invocations of earlier instances still run
NextProps ==
    \/ MovePDF
    \/ (Len(StillRunning(mergeOps)) < MaxCalls /\ MergeClick)
    \/ MergeSteps
    \/ FilesChange
    \/ FilesEffect
    \/ Remount

\* the component as mounted with one of these lists
InitProps ==
    /\ \E fs \in SelectedLists : Mounted(fs)
    /\ OthersAtRest
    /\ RangeAtRest

SpecProps == InitProps /\ [][NextProps]_vars

---------------------------------------------------------------------------
(* The mounted ImageConverter *)

\* the PDFManipulator's state with no file and nothing done
ManipulatorAtRest == Mounted(<<>>)

InitImage ==
    /\ \E fs \in ImageLists : imageConverter = ImageConverter(fs)
    /\ pdfConverter = PDFConverter(<<>>)
    /\ fileUpload = IdleUpload
    /\ Index = IdleIndex
    /\ ManipulatorAtRest
    /\ RangeAtRest

NextImage ==
    \/ RotateLeft \/ RotateRight \/ RotationSlider \/ SetOutputFormat
    \/ ImageClick \/ ImageLoad \/ ImageToBlob

SpecImage == InitImage /\ [][NextImage]_vars

---------------------------------------------------------------------------
(* The mounted PDFConverter *)

InitConvert ==
    /\ \E fs \in UploadLists : pdfConverter = PDFConverter(fs)
    /\ imageConverter = ImageConverter(<<>>)
    /\ fileUpload = IdleUpload
    /\ Index = IdleIndex
    /\ ManipulatorAtRest
    /\ RangeAtRest

NextConvert == ToPdfClick \/ ConvertImport \/ ConvertLoop \/ ToImagesClick

SpecConvert == InitConvert /\ [][NextConvert]_vars

\* the same, with every awaited import and every image load settling: the
\* continuation of a started invocation is eventually run
SpecConvertFair ==
    /\ InitConvert
    /\ [][NextConvert]_vars
    /\ WF_vars(ConvertImport)
    /\ WF_vars(ConvertLoop)

---------------------------------------------------------------------------
(* The mounted FileUpload *)

InitUpload ==
    /\ OthersAtRest
    /\ ManipulatorAtRest
    /\ RangeAtRest

NextUpload == HandleFiles

SpecUpload == InitUpload /\ [][NextUpload]_vars

---------------------------------------------------------------------------
(* The Index page from its first render *)

InitIndex ==
    /\ OthersAtRest
    /\ ManipulatorAtRest
    /\ RangeAtRest

\* the handlers of the page, and the effect of a PDFManipulator that a
\* render of the tabs has mounted
NextIndex ==
    \/ handleFilesUploaded \/ removeFile \/ clearAllFiles \/ setActiveTab
    \/ FilesEffect

SpecIndex == InitIndex /\ [][NextIndex]_vars

---------------------------------------------------------------------------
(* A call of parsePageRange on drawn arguments *)

Strings(n) == UNION {[1..k -> Chars] : k \in 0..n}

InitRange ==
    /\ range \in Strings(MaxLen)
    /\ totalPages \in 1..MaxPages
    /\ pages = <<>>
    /\ parsePc = "call"
    /\ ManipulatorAtRest
    /\ OthersAtRest

CallParsePageRange ==
    /\ parsePc = "call"
    /\ pages' = parsePageRange(range, totalPages)
    /\ parsePc' = "returned"
    /\ UNCHANGED <<range, totalPages>>
    /\ UNCHANGED <<compVars, panelVars, elsewhere>>

NextRange == CallParsePageRange

SpecRange == InitRange /\ [][NextRange]_vars

---------------------------------------------------------------------------
(* Vocabulary of the claims about parsePageRange *)

\* the parts of the expression of the call
Tokens == Split(range, ",")

\* parts joined by commas, the inverse of split(',')
RECURSIVE Join(_)
Join(parts) ==
    IF Len(parts) = 0 THEN <<>>
    ELSE IF Len(parts) = 1 THEN parts[1]
    ELSE parts[1] \o <<",">> \o Join(Tail(parts))

\* the expression of the call with its i-th part left out
WithoutToken(i) == Join(SubSeq(Tokens, 1, i - 1) \o SubSeq(Tokens, i + 1, Len(Tokens)))

DecimalDigits == {"0", "1", "2", "3", "4", "5", "6", "7", "8", "9"}

\* a decimal numeral: one or more decimal digits and nothing else
IsDecimal(s) == s # <<>> /\ \A i \in 1..Len(s) : s[i] \in DecimalDigits
DecimalValue(s) == DigitsValue(s, 10)

\* a numeral with white space around it allowed
IsNumeral(s) == IsDecimal(Trim(s))
NumeralValue(s) == DecimalValue(Trim(s))

\* the part is  left-right  with exactly one dash
HasOneDash(t) == Cardinality({i \in 1..Len(t) : t[i] = "-"}) = 1
LeftOf(t)  == SubSeq(t, 1, Min({i \in 1..Len(t) : t[i] = "-"}) - 1)
RightOf(t) == SubSeq(t, Min({i \in 1..Len(t) : t[i] = "-"}) + 1, Len(t))

\* the grammar of a token: a positive integer N, or a-b with 1 <= a <= b
WellFormed(tok) ==
    LET t == Trim(tok)
    IN  \/ IsDecimal(t) /\ DecimalValue(t) >= 1
        \/ /\ HasOneDash(t)
           /\ IsNumeral(LeftOf(t)) /\ IsNumeral(RightOf(t))
           /\ NumeralValue(LeftOf(t)) >= 1
           /\ NumeralValue(LeftOf(t)) <= NumeralValue(RightOf(t))

\* a token N or a-b that is wholly or partly outside 1..total
OutOfBounds(tok, total) ==
    LET t == Trim(tok)
    IN  \/ IsDecimal(t) /\ (DecimalValue(t) < 1 \/ DecimalValue(t) > total)
        \/ Len(t) >= 2 /\ t[1] = "-" /\ IsDecimal(Tail(t))
        \/ /\ HasOneDash(t)
           /\ IsNumeral(LeftOf(t)) /\ IsNumeral(RightOf(t))
           /\ (NumeralValue(LeftOf(t)) < 1 \/ NumeralValue(RightOf(t)) > total)

\* the token names page n: it is the numeral of n, or two numerals joined
\* by one dash whose values enclose n
Covers(tok, n) ==
    LET t == Trim(tok)
    IN  \/ IsDecimal(t) /\ DecimalValue(t) = n
        \/ /\ HasOneDash(t)
           /\ IsNumeral(LeftOf(t)) /\ IsNumeral(RightOf(t))
           /\ NumeralValue(LeftOf(t)) <= n
           /\ n <= NumeralValue(RightOf(t))

\* a number written in decimal
RECURSIVE NumberToString(_)
NumberToString(n) ==
    LET d == CHOOSE c \in DecimalDigits : DigitValue(c) = n % 10
    IN  IF n < 10 THEN <<d>> ELSE NumberToString(n \div 10) \o <<d>>

\* a list of numbers written as a comma-separated list
Stringify(list) == Join([i \in 1..Len(list) |-> NumberToString(list[i])])

StrictlyAscending(s) == \A i \in 1..Len(s) : \A j \in 1..Len(s) : i < j => s[i] < s[j]

---------------------------------------------------------------------------
(* Claims about parsePageRange, checked under SpecRange *)

\* C1: whatever the order and overlap of the tokens, the returned list is
\* strictly ascending, so it holds no value twice.
C1_SortedDeduplicated ==
    parsePc = "returned" => StrictlyAscending(pages)

\* C1 witness: a call has returned two or more pages that the parts pushed
\* in another order or more than once.
C1_Witness ==
    /\ parsePc = "returned"
    /\ Len(pages) >= 2
    /\ PushAll(Tokens, totalPages) # pages

\* C2: a token N or a-b that is wholly or partly outside 1..totalPages
\* pushes no page (it is not clipped), the call returns, and the result is
\* the one the expression gives without that token.
C2_OutOfBoundsDropped ==
    parsePc = "returned" =>
        \A i \in 1..Len(Tokens) :
            OutOfBounds(Tokens[i], totalPages) =>
                /\ PartPages(Tokens[i], totalPages) = <<>>
                /\ pages = parsePageRange(WithoutToken(i), totalPages)

\* C2 witness: the expression holds an out-of-bounds token next to a valid
\* one, and the call returned the valid one's pages.
C2_Witness ==
    /\ parsePc = "returned"
    /\ pages # <<>>
    /\ \E i \in 1..Len(Tokens) : OutOfBounds(Tokens[i], totalPages)

\* C3: a token that is neither a positive decimal integer nor two of them
\* joined by one dash with start <= end contributes no page: the result
\* is the one the expression gives without that token.
C3_MalformedContributeNothing ==
    parsePc = "returned" =>
        \A i \in 1..Len(Tokens) :
            ~WellFormed(Tokens[i]) =>
                pages = parsePageRange(WithoutToken(i), totalPages)

\* C5: every returned page lies in 1..totalPages and is named by at least
\* one token of the expression.
C5_WithinBoundsAndNamed ==
    parsePc = "returned" =>
        \A k \in 1..Len(pages) :
            /\ pages[k] \in 1..totalPages
            /\ \E i \in 1..Len(Tokens) : Covers(Tokens[i], pages[k])

\* C6: writing the returned list as a comma-separated list and resolving
\* that text against the same page count returns the same list.
C6_IdempotentUnderStringify ==
    parsePc = "returned" =>
        parsePageRange(Stringify(pages), totalPages) = pages

\* C6 witness: a call returned two or more pages from an expression that
\* is not already the written form of its result.
C6_Witness ==
    /\ parsePc = "returned"
    /\ Len(pages) >= 2
    /\ Stringify(pages) # range


---------------------------------------------------------------------------
(* Vocabulary of the claims about mergePDFs and splitPDF *)

\* the pages of a file, in their original order
PagesOfFile(f) == [k \in 1..f.pages |-> <<f.name, k>>]

\* the pages of the files fs[p[1]], fs[p[2]], ..., file after file
RECURSIVE Concatenation(_, _)
Concatenation(fs, p) ==
    IF p = <<>> THEN <<>>
    ELSE PagesOfFile(fs[Head(p)]) \o Concatenation(fs, Tail(p))

\* the ways to put n files in a row, each file once
Arrangements(n) == {p \in [1..n -> 1..n] : \A a, b \in 1..n : p[a] = p[b] => a = b}

RECURSIVE TotalPages(_)
TotalPages(fs) == IF fs = <<>> THEN 0 ELSE Head(fs).pages + TotalPages(Tail(fs))

\* how often x occurs in s
Occurrences(s, x) == Cardinality({i \in 1..Len(s) : s[i] = x})

\* the last invocation of a list, the one called last
Last(ops) == ops[Len(ops)]

MergeSucceeded(op) == op.pc = "done" /\ op.toast = "Merge completed"

SplitSucceeded(op) == op.pc = "done" /\ op.toast = "Split completed"

\* the selection of an invocation of splitPDF that got as far as its try
SelectionOf(op) == parsePageRange(op.range, op.files[1].pages)

\* the k-th invocation of the list returns in this step
Returns(ops, ops2, k) ==
    /\ Len(ops2) = Len(ops)
    /\ Running(ops[k])
    /\ ~Running(ops2[k])

---------------------------------------------------------------------------
(* Claims about splitPDF, checked under SpecSplit *)

\* C4: an invocation of splitPDF whose range resolves to no page of the
\* loaded document ends with the failure toast, with no file downloaded in
\* either mode, and with isProcessing false.
C4_EmptySelectionFails ==
    [][ \A k \in 1..Len(splitOps) :
          (Returns(splitOps, splitOps', k) /\ SelectionOf(splitOps[k]) = <<>>)
          => ( /\ splitOps'[k].toast = "Split failed"
               /\ splitOps'[k].downloads = <<>>
               /\ isProcessing' = FALSE ) ]_vars

\* C4 witness: the document was loaded, it has pages, the range names none
\* of them, and the invocation is over.
C4_Witness ==
    \E k \in 1..Len(splitOps) :
        /\ splitOps[k].pc = "done"
        /\ splitOps[k].pdf # <<>>
        /\ SelectionOf(splitOps[k]) = <<>>
        /\ splitOps[k].toast = "Split failed"
        /\ ~isProcessing

\* C10: a successful split in mode 'range' downloads exactly one document;
\* its pages are the pages parsePageRange selects for the range and page
\* count of the call, in ascending order of source page, each once.
C10_RangeModeOutput ==
    \A i \in 1..Len(splitOps) :
        (SplitSucceeded(splitOps[i]) /\ splitOps[i].mode = "range") =>
            /\ Len(splitOps[i].downloads) = 1
            /\ LET doc == splitOps[i].downloads[1]
                   src == splitOps[i].files[1]
                   sel == SelectionOf(splitOps[i])
               IN  /\ Len(doc) = Len(sel)
                   /\ \A k \in 1..Len(doc) : doc[k] = <<src.name, sel[k]>>
                   /\ \A j \in 1..Len(doc) : \A k \in 1..Len(doc) :
                          j < k => doc[j][2] < doc[k][2]
                   /\ \A n \in 1..src.pages :
                          Occurrences(doc, <<src.name, n>>) =
                              IF \E k \in 1..Len(sel) : sel[k] = n THEN 1 ELSE 0

\* C10 witness: a range-mode split succeeded with two or more pages named
\* out of order, leaving a page of the source unselected.
C10_Witness ==
    \E i \in 1..Len(splitOps) :
        LET op == splitOps[i]
        IN  /\ SplitSucceeded(op)
            /\ op.mode = "range"
            /\ Len(op.downloads[1]) >= 2
            /\ Len(op.downloads[1]) < op.files[1].pages
            /\ PushAll(Split(op.range, ","), op.files[1].pages) # SelectionOf(op)

\* C11: a successful split in mode 'individual' has downloaded one document
\* per selected page, the k-th document holding exactly the k-th selected
\* page of the source, the documents in ascending order of source page; the
\* number of files in the success toast is the number of documents downloaded.
C11_IndividualModeOutput ==
    \A i \in 1..Len(splitOps) :
        (SplitSucceeded(splitOps[i]) /\ splitOps[i].mode = "individual") =>
            LET src == splitOps[i].files[1]
                sel == SelectionOf(splitOps[i])
                out == splitOps[i].downloads
            IN  /\ Len(out) = Len(sel)
                /\ \A k \in 1..Len(out) : out[k] = << <<src.name, sel[k]>> >>
                /\ \A j \in 1..Len(out) : \A k \in 1..Len(out) :
                       j < k => out[j][1][2] < out[k][1][2]
                /\ splitOps[i].count = Len(out)

\* C11 witness: an individual-mode split succeeded on two or more pages
\* that the range names out of order.
C11_Witness ==
    \E i \in 1..Len(splitOps) :
        LET op == splitOps[i]
        IN  /\ SplitSucceeded(op)
            /\ op.mode = "individual"
            /\ Len(op.downloads) >= 2
            /\ op.count = Len(op.downloads)
            /\ PushAll(Split(op.range, ","), op.files[1].pages) # SelectionOf(op)

\* an invocation that ended in its catch block
MergeFailedRun(op) == op.pc = "done" /\ op.toast = "Merge failed"
SplitFailedRun(op) == op.pc = "done" /\ op.toast = "Split failed"

\* C12: an invocation of mergePDFs or of splitPDF (either mode) that fails
\* at any step has downloaded no file.
C12_NoDownloadBeforeSuccess ==
    /\ \A k \in 1..Len(mergeOps) :
          MergeFailedRun(mergeOps[k]) => mergeOps[k].downloads = <<>>
    /\ \A k \in 1..Len(splitOps) :
          SplitFailedRun(splitOps[k]) => splitOps[k].downloads = <<>>

---------------------------------------------------------------------------
(* Claims about the handlers as functions, checked under SpecCalls *)

\* the range text has a character that is not white space
NonBlank(text) == \E i \in 1..Len(text) : text[i] \notin WhiteSpace

\* C19: an invocation of splitPDF sets isProcessing and goes on to load the
\* document only when exactly one file is selected and the range text is not
\* blank; otherwise it ends at once with an error toast, with no document
\* loaded, nothing downloaded and isProcessing not set.
C19_SplitStartsOnlyOnValidInput ==
    [][ SplitInvoke =>
        IF Len(files) = 1 /\ NonBlank(splitRange)
        THEN /\ Last(splitOps').pc = "import"
             /\ isProcessing'
        ELSE /\ Last(splitOps').pc = "done"
             /\ Last(splitOps').toast \in {"Select one PDF", "Enter page range"}
             /\ Last(splitOps').pdf = <<>>
             /\ Last(splitOps').downloads = <<>>
             /\ isProcessing' = isProcessing ]_vars

\* C19 witness: with one file selected, a range of white space only has
\* been refused.
C19_Witness ==
    /\ Len(files) = 1
    /\ splitRange # <<>>
    /\ ~NonBlank(splitRange)
    /\ splitOps # <<>>
    /\ Last(splitOps).pc = "done"
    /\ Last(splitOps).toast = "Enter page range"
    /\ ~isProcessing

\* C16: no step of mergePDFs, splitPDF or compressPDF, successful or
\* failing, changes the file list (ids, order, page contents), mergeOrder,
\* splitRange or splitMode, and a running invocation keeps the files it
\* started with.
C16_OperationsKeepSelection ==
    [][ /\ (mergePDFs \/ splitPDF \/ compressPDF)
            => UNCHANGED <<files, mergeOrder, splitRange, splitMode>>
        /\ (MergeSteps \/ SplitSteps)
            => ( /\ \A k \in 1..Len(mergeOps) : mergeOps'[k].files = mergeOps[k].files
                 /\ \A k \in 1..Len(splitOps) : splitOps'[k].files = splitOps[k].files ) ]_vars

\* C16 witness: a split has run to its end on a typed range and compressPDF
\* has been called, and the inputs are still what the split started with.
C16_Witness ==
    /\ \E k \in 1..Len(splitOps) :
          /\ splitOps[k].pc = "done"
          /\ splitOps[k].toast \in {"Split completed", "Split failed"}
          /\ splitRange = splitOps[k].range
          /\ splitMode = splitOps[k].mode
          /\ files = splitOps[k].files
    /\ compressOp.toast = "PDF compression"
    /\ mergeOrder = Ids(files)

\* C8: mergePDFs called with fewer than 2 files returns at once: the error
\* toast is shown, nothing is loaded or downloaded, and isProcessing is
\* not touched.
C8_TooFewFilesRejected ==
    [][ (Len(files) < 2 /\ MergeInvoke)
        => ( /\ Last(mergeOps').pc = "done"
             /\ Last(mergeOps').toast = "Not enough files"
             /\ Last(mergeOps').i = 0
             /\ Last(mergeOps').doc = <<>>
             /\ Last(mergeOps').pdf = <<>>
             /\ Last(mergeOps').downloads = <<>>
             /\ isProcessing' = isProcessing ) ]_vars

\* C8 witness: mergePDFs was called with one file and has returned.
C8_Witness ==
    /\ Len(files) = 1
    /\ mergeOps # <<>>
    /\ Last(mergeOps).pc = "done"
    /\ Last(mergeOps).toast = "Not enough files"
    /\ Last(mergeOps).downloads = <<>>

---------------------------------------------------------------------------
(* Claims about convertImagesToPDF, checked under SpecConvert *)

\* the image files of a list, in the order of the list
RECURSIVE ImagesOf(_)
ImagesOf(fs) ==
    IF fs = <<>> THEN <<>>
    ELSE IF StartsWith(Head(fs).type, ImagePrefix)
         THEN <<Head(fs)>> \o ImagesOf(Tail(fs))
         ELSE ImagesOf(Tail(fs))

ConvertSucceeded(op) == op.pc = "done" /\ op.toast = "Conversion completed"

\* C17: a successful convertImagesToPDF has saved one PDF whose pages are
\* the image files of the upload list, one image per page in upload order,
\* with no blank page and no page for a file that is not an image; an
\* invocation in which an image fails to load or to draw saves no PDF.
C17_OnePagePerImage ==
    \A i \in 1..Len(pdfConverter.toPdf) :
        LET op     == pdfConverter.toPdf[i]
            images == ImagesOf(pdfConverter.files)
        IN  /\ ConvertSucceeded(op) =>
                  /\ Len(op.downloads) = 1
                  /\ Len(op.downloads[1]) = Len(images)
                  /\ \A k \in 1..Len(images) : op.downloads[1][k] = <<images[k].name>>
            /\ ~ConvertSucceeded(op) => op.downloads = <<>>

\* C17 witness: a conversion succeeded on a list of two or more images with
\* a file among them that is not an image.
C17_Witness ==
    \E i \in 1..Len(pdfConverter.toPdf) :
        /\ ConvertSucceeded(pdfConverter.toPdf[i])
        /\ Len(pdfConverter.toPdf[i].downloads[1]) >= 2
        /\ Len(pdfConverter.files) > Len(pdfConverter.toPdf[i].downloads[1])

---------------------------------------------------------------------------
(* Claims about processFiles, checked under SpecUpload *)

\* a file the claim accepts: at most 50 MB, an image type or the PDF type
Accepted(f) ==
    /\ f.size <= 52428800
    /\ \/ Len(f.type) >= 6 /\ SubSeq(f.type, 1, 6) = <<"i", "m", "a", "g", "e", "/">>
       \/ f.type = ApplicationPdf

\* C18: of the batch handed to processFiles, the files passed to
\* onFilesUploaded are exactly the files of at most 50 MB whose type starts
\* with 'image/' or is 'application/pdf', in the order of the batch and with
\* status 'completed'; every other file has its error toast; onFilesUploaded
\* is called exactly when a file is accepted.
C18_AcceptedFilesPassed ==
    LET batch == fileUpload.batch
        good  == SelectSeq(batch, Accepted)
        out   == fileUpload.passed
    IN  /\ Len(out) = Len(good)
        /\ \A k \in 1..Len(good) :
              /\ out[k].name = good[k].name
              /\ out[k].size = good[k].size
              /\ out[k].type = good[k].type
              /\ out[k].status = "completed"
        /\ \A i \in 1..Len(batch) :
              ~Accepted(batch[i]) =>
                 \E t \in 1..Len(fileUpload.toasts) :
                    /\ fileUpload.toasts[t].name = batch[i].name
                    /\ fileUpload.toasts[t].title \in {"File too large", "Unsupported format"}
        /\ fileUpload.called <=> Len(good) > 0
        /\ ~fileUpload.isProcessing

\* C18 witness: a batch whose first file is refused and whose second file,
\* of exactly 50 MB, is passed on.
C18_Witness ==
    /\ Len(fileUpload.batch) >= 2
    /\ ~Accepted(fileUpload.batch[1])
    /\ fileUpload.batch[2].size = 52428800
    /\ fileUpload.called
    /\ Len(fileUpload.passed) = 1
    /\ fileUpload.passed[1].name = 2

\* C20: whenever a handler has set the isProcessing flag of its component
\* (PDFManipulator, PDFConverter, ImageConverter), the flag is eventually
\* false again, whatever way the invocation ends.
C20_FlagReleased ==
    /\ isProcessing ~> ~isProcessing
    /\ pdfConverter.isProcessing ~> ~pdfConverter.isProcessing
    /\ imageConverter.isProcessing ~> ~imageConverter.isProcessing

---------------------------------------------------------------------------
(* Claims about the buttons, checked under SpecButtons *)

\* the invocations of the mounted instance that are between their
\* setIsProcessing(true) and their finally block
InFlight(ops) == {k \in 1..Len(ops) : Running(ops[k]) /\ ops[k].live}

\* C21: in a mounted PDFManipulator a click starts a merge, a split or a
\* compress only when none is in flight; at most one invocation of merge and
\* split is in flight, and isProcessing stays true as long as one is, so the
\* three buttons stay disabled until it ends.
C21_OneOperationInFlight ==
    [][ /\ (MergeClick \/ SplitClick \/ CompressClick)
            => (InFlight(mergeOps) = {} /\ InFlight(splitOps) = {})
        /\ Cardinality(InFlight(mergeOps')) + Cardinality(InFlight(splitOps')) <= 1
        /\ (InFlight(mergeOps') # {} \/ InFlight(splitOps') # {}) => isProcessing' ]_vars

\* C21 witness: a split waits for its copied pages, after a compress, and
\* the flag is up.
C21_Witness ==
    /\ \E k \in InFlight(splitOps) : splitOps[k].pc = "copyPages"
    /\ compressOp.pc = "done"
    /\ isProcessing

---------------------------------------------------------------------------
(* Claims about the merge panel under changes of the file list, checked
   under SpecProps *)

\* s holds exactly the elements of t, each once
IsArrangement(s, t) ==
    /\ Len(s) = Len(t)
    /\ \A k \in 1..Len(t) : Occurrences(s, t[k]) = 1

\* the files an invocation of mergePDFs loaded and appended, in that order
MergedFiles(op) == [j \in 1..Len(op.merged) |-> op.files[op.merged[j]]]

\* C22: in a successful mergePDFs every file of `files` is loaded and appended
\* exactly once, none skipped and none twice, so the number in the success
\* toast, files.length, is the number of documents merged, whatever changes
\* of the file list and movePDF calls came before.
C22_EveryFileMergedOnce ==
    \A k \in 1..Len(mergeOps) :
        MergeSucceeded(mergeOps[k]) =>
            /\ IsArrangement(MergedFiles(mergeOps[k]), mergeOps[k].files)
            /\ mergeOps[k].count = Len(mergeOps[k].merged)

\* the list s holds the entries of the list t, each as often as t does
SameEntries(s, t) ==
    /\ Len(s) = Len(t)
    /\ \A k \in 1..Len(t) : Occurrences(s, t[k]) = Occurrences(t, t[k])

\* C24: whenever the files prop changes, or the component is mounted again,
\* mergeOrder is set to the ids of the new files in upload order, whatever
\* order the rows had been given; the order the next mergePDFs takes is the
\* order of the rows at the click, which is the ids of the files of the click
\* as the moves since the reset arranged them, and the merge that succeeds
\* has appended the files in that order.
C24_OrderResetOnFilesChange ==
    /\ [][ (FilesEffect \/ Remount)
              => mergeOrder' = [i \in 1..Len(files') |-> files'[i].id] ]_vars
    /\ [][ MergeClick
              => /\ Last(mergeOps').order = mergeOrder
                 /\ Last(mergeOps').files = files
                 /\ SameEntries(mergeOrder, [i \in 1..Len(files) |-> files[i].id]) ]_vars
    /\ [](\A k \in 1..Len(mergeOps) :
             MergeSucceeded(mergeOps[k]) => Ids(MergedFiles(mergeOps[k])) = mergeOps[k].order)

---------------------------------------------------------------------------
(* Claims about single moves in the order list, checked under SpecOrder *)

\* C23: movePDF(index, direction) exchanges the entry at index with its
\* neighbour in that direction and leaves every other position as it was;
\* movePDF(0, 'up') and movePDF(last, 'down') leave mergeOrder unchanged; and
\* movePDF(i, 'up') followed by movePDF(i - 1, 'down') gives the order back.
C23_MoveExchangesNeighbours ==
    /\ [](Len(mergeOrder) >= 1 =>
            /\ newOrder(mergeOrder, 0, "up") = mergeOrder
            /\ newOrder(mergeOrder, Len(mergeOrder) - 1, "down") = mergeOrder)
    /\ [][ \A index \in 0..(Len(mergeOrder) - 1) : \A direction \in {"up", "down"} :
             movePDF(index, direction) =>
               LET targetIndex == IF direction = "up" THEN index - 1 ELSE index + 1
               IN  /\ Len(mergeOrder') = Len(mergeOrder)
                   /\ targetIndex \in 0..(Len(mergeOrder) - 1) =>
                         /\ mergeOrder'[index + 1] = mergeOrder[targetIndex + 1]
                         /\ mergeOrder'[targetIndex + 1] = mergeOrder[index + 1]
                         /\ \A k \in 1..Len(mergeOrder) :
                               k \notin {index + 1, targetIndex + 1}
                                 => mergeOrder'[k] = mergeOrder[k]
                   /\ targetIndex \notin 0..(Len(mergeOrder) - 1) =>
                         mergeOrder' = mergeOrder
                   /\ (direction = "up" /\ index >= 1) =>
                         newOrder(mergeOrder', index - 1, "down") = mergeOrder ]_vars

\* C23 witness: the second row was moved down, the first row kept its place.
C23_Witness ==
    /\ Len(files) = 3
    /\ Ids(files) = <<FileId(1), FileId(2), FileId(3)>>
    /\ mergeOrder = <<FileId(1), FileId(3), FileId(2)>>

---------------------------------------------------------------------------
(* Claims about the upload list of the Index page, checked under SpecIndex *)

\* where the entry e stands in the list
Position(list, e) == Min({k \in 1..Len(list) : list[k] = e})

\* sub holds exactly the entries of full that satisfy P, in the order of full
ExactlyThose(sub, full, P(_)) ==
    /\ Len(sub) = Cardinality({k \in 1..Len(full) : P(full[k])})
    /\ \A k \in 1..Len(full) : P(full[k]) => Occurrences(sub, full[k]) = 1
    /\ \A a \in 1..Len(sub) : \E k \in 1..Len(full) : sub[a] = full[k] /\ P(full[k])
    /\ \A a, b \in 1..Len(sub) :
          a < b => Position(full, sub[a]) < Position(full, sub[b])

\* the names of the files of a list
Names(fs) == [i \in 1..Len(fs) |-> fs[i].name]

\* C25: after any uploads, removeFile and clearAllFiles calls every entry of
\* uploadedFiles is an image or a PDF that passed the upload checks; the PDF
\* tools are given exactly the entries of type application/pdf and the image
\* tools exactly those whose type starts with image/, both in upload order;
\* removeFile(id) removes the entries of that id only and keeps the order of
\* the rest; clearAllFiles leaves the list empty.
C25_UploadListAndFilters ==
    /\ [](/\ \A k \in 1..Len(Index.uploadedFiles) :
                LET f == Index.uploadedFiles[k]
                IN  /\ (StartsWith(f.type, ImagePrefix) \/ f.type = ApplicationPdf)
                    /\ f.size <= SizeLimit
                    /\ f.status = "completed"
          /\ (Index.activeTab = "pdf-manipulate" =>
                ExactlyThose(files, Index.uploadedFiles,
                             LAMBDA f : f.type = ApplicationPdf))
          /\ (Index.activeTab = "image-convert" =>
                ExactlyThose(imageConverter.files, Index.uploadedFiles,
                             LAMBDA f : StartsWith(f.type, ImagePrefix))))
    /\ [][ removeFile =>
             \E k \in 1..Len(Index.uploadedFiles) :
                ExactlyThose(Index'.uploadedFiles, Index.uploadedFiles,
                             LAMBDA f : f.id # Index.uploadedFiles[k].id) ]_vars
    /\ [][ clearAllFiles => Index'.uploadedFiles = <<>> ]_vars

\* C25 witness: of three files dropped the second is gone from the list; the
\* PDF tools are shown and hold the one PDF, the list holds an image too.
C25_Witness ==
    /\ Index.activeTab = "pdf-manipulate"
    /\ Index.dropped = 3
    /\ Names(Index.uploadedFiles) = <<1, 3>>
    /\ Index.uploadedFiles[1].type = ImagePng
    /\ Names(files) = <<3>>

---------------------------------------------------------------------------
(* Claims about the rotation controls, checked under SpecImage *)

NormalizedAngles == {0, 90, 180, 270}

\* C13: after any sequence of clicks on the rotate-left and rotate-right
\* buttons and moves of the rotation slider of the ImageConverter, and of
\* choices in the angle select of the PDFManipulator, both rotation states
\* are one of 0, 90, 180, 270.
C13_RotationNormalized ==
    /\ imageConverter.rotation \in NormalizedAngles
    /\ ~rotationAngle.nan /\ rotationAngle.n \in NormalizedAngles

---------------------------------------------------------------------------
(* Claims about mergePDFs, checked under SpecMerge *)

\* C14: mergeOrder has the length of the file list and holds the id of
\* every selected file exactly once, and nothing else, after any sequence of
\* movePDF calls.
C14_MergeOrderBijection ==
    /\ Len(mergeOrder) = Len(files)
    /\ \A i \in 1..Len(files) : Occurrences(mergeOrder, files[i].id) = 1
    /\ \A k \in 1..Len(mergeOrder) : \E i \in 1..Len(files) : mergeOrder[k] = files[i].id

\* C7: a successful merge downloads one document: the pages of every
\* selected file, file after file in the merge order of the call, each
\* file's pages in their original order; so it starts with the pages of
\* the first file of the order and has as many pages as the files together.
C7_MergeConcatenates ==
    \A n \in 1..Len(mergeOps) :
        LET op == mergeOps[n]
        IN  MergeSucceeded(op) =>
              /\ Len(op.downloads) = 1
              /\ \E p \in Arrangements(Len(op.files)) :
                    /\ \A k \in 1..Len(p) : op.files[p[k]].id = op.order[k]
                    /\ op.downloads[1] = Concatenation(op.files, p)
              /\ Len(op.downloads[1]) = TotalPages(op.files)
              /\ \A i \in 1..Len(op.files) :
                    \A k \in 1..op.files[i].pages :
                        Occurrences(op.downloads[1], <<op.files[i].name, k>>) = 1

\* C9: a merge one of whose input documents has no page fails: no file is
\* downloaded and the failure toast is shown, not the success toast.
C9_EmptyInputFails ==
    \A k \in 1..Len(mergeOps) :
        ( /\ mergeOps[k].pc = "done"
          /\ \E i \in 1..Len(mergeOps[k].files) : mergeOps[k].files[i].pages = 0 )
        => ( /\ mergeOps[k].toast = "Merge failed"
             /\ mergeOps[k].downloads = <<>> )

====
